---- MODULE Spec2Model ----
(***************************************************************************)
(* Stock ledger reconciliation of the inventory/delivery application:      *)
(* the delivery routes (record, update, delete) of src/routes/delivery.js  *)
(* acting on the Inventory and Delivery collections, together with the     *)
(* catalog's item deletion, barcode allocation and item intake (POST /add) *)
(* of src/routes/inventory.js.                                             *)
(*                                                                         *)
(* Spec      : delivery requests are served one at a time, each handler    *)
(*             runs to completion (one action per handler).                *)
(* SpecConc  : delivery requests are served concurrently; a handler is a   *)
(*             sequence of steps, one per awaited database call, and the   *)
(*             steps of different requests interleave.                     *)
(* SpecAdd   : POST /inventory/add requests (barcode allocation included)  *)
(*             served one at a time on a catalog that starts empty.        *)
(* SpecAddConc : POST /inventory/add requests served concurrently, step by *)
(*             step.                                                       *)
(* SpecStock : delivery requests, item deletion, POST /update-stock and    *)
(*             POST /edit served one at a time.                            *)
(* SpecStatus: the stock status of the Excel report, of export-all and of  *)
(*             the dashboard counts.                                       *)
(* SpecMix   : record, update, delete and POST /inventory/add requests     *)
(*             served concurrently, step by step, on a catalog with one    *)
(*             stored delivery.                                            *)
(***************************************************************************)
EXTENDS Integers, Sequences, FiniteSets, TLC

(***************************************************************************)
(* Bounds of the model.                                                    *)
(***************************************************************************)
\* largest on-hand quantity of an item in the initial catalog
MaxQty == 2
\* number of Delivery documents ever created (ObjectIds are never reused)
MaxDeliveries == 2
\* largest quantity a request asks for
MaxRequest == MaxQty + 1
\* on-hand quantities are explored up to this value
QtyCap == MaxQty + 1

ItemIds == {"i1", "i2"}
DeliveryIds == 1..MaxDeliveries
\* the text fields of a delivery form: customerName and notes
FormTexts ==
    { [customerName |-> "Alice", notes |-> ""],
      [customerName |-> "Bob", notes |-> "fragile"] }

\* the text fields of the forms submitted along a behaviour; the handlers
\* copy the texts and never branch on them
ServedTexts == { [customerName |-> "Alice", notes |-> ""] }

\* itemName of the catalog's items
ItemName(i) == IF i = "i1" THEN "Shirt" ELSE "Cap"

(***************************************************************************)
(* Request bodies carry quantities as text (urlencoded form fields).       *)
(* A text is a sequence of one-character strings.                          *)
(***************************************************************************)
DigitChars == <<"0", "1", "2", "3", "4", "5", "6", "7", "8", "9">>

IsDigit(c) == \E k \in 1..10 : DigitChars[k] = c

DigitValue(c) == (CHOOSE k \in 1..10 : DigitChars[k] = c) - 1

RECURSIVE DecimalText(_)
\* the decimal text of a natural number (String(n) of JavaScript)
DecimalText(n) ==
    IF n < 10 THEN <<DigitChars[n + 1]>>
    ELSE Append(DecimalText(n \div 10), DigitChars[(n % 10) + 1])

\* the text of an integer
NumberText(n) == IF n < 0 THEN <<"-">> \o DecimalText(-n) ELSE DecimalText(n)

\* the quantity texts a request may carry: integers, a number followed by
\* other characters, and texts that hold no number
QuantityTexts ==
    { NumberText(n) : n \in -1..MaxRequest }
        \cup { <<"2", "x">>, <<"a", "b", "c">> }

RECURSIVE DigitPrefixValue(_, _)
\* value of the longest prefix of digits of s, continuing from acc
DigitPrefixValue(s, acc) ==
    IF s = <<>> \/ ~IsDigit(Head(s)) THEN acc
    ELSE DigitPrefixValue(Tail(s), 10 * acc + DigitValue(Head(s)))

\* parseInt(text): an optional sign, then the longest prefix of digits;
\* NaN when there is no digit.  A number is [nan |-> BOOLEAN, n |-> Int].
NaN == [nan |-> TRUE, n |-> 0]
Num(n) == [nan |-> FALSE, n |-> n]
ParseText(s) ==
    LET neg == s # <<>> /\ Head(s) = "-"
        body == IF s # <<>> /\ Head(s) \in {"-", "+"} THEN Tail(s) ELSE s
    IN  IF body = <<>> \/ ~IsDigit(Head(body)) THEN NaN
        ELSE Num(IF neg THEN -DigitPrefixValue(body, 0) ELSE DigitPrefixValue(body, 0))

\* ParseText of the quantity texts, computed once
ParsedQuantity == [s \in QuantityTexts |-> ParseText(s)]

parseInt(s) == ParsedQuantity[s]

(***************************************************************************)
(* The database: the Inventory and the Delivery collection.                *)
(***************************************************************************)
VARIABLES
    items,       \* Inventory collection: id -> document, for the ids stored
    deliveries,  \* Delivery collection: id -> document, for the ids stored
    nextId,      \* the id the next new Delivery document gets
    mark,        \* history: <<>> or <<m>>, m the last successful record
                 \* and whether the delivery it created was deleted next
                 \* (SpecMix: the stored delivery and the item's quantity
                 \* at the start)
    passed,      \* history: per (itemName, category, size, color), the sum of
                 \* the positive quantities POST /inventory/add was given
    pc,          \* where each request in flight stands
    loc          \* the locals of each request in flight

vars == <<items, deliveries, nextId, mark, passed, pc, loc>>

\* the requests in flight at once
Procs == {"p1", "p2"}

(***************************************************************************)
(* Mongoose calls.                                                         *)
(***************************************************************************)
\* Model.findById(id): is there a document with this id
Found(coll, id) == id \in DOMAIN coll

\* mutant of the $inc update: a missing document is created (upsert)
IncQuantityUpsert(inv, id, d) ==
    IF id \in DOMAIN inv THEN [inv EXCEPT ![id].quantity = @ + d]
    ELSE [k \in DOMAIN inv \cup {id} |->
             IF k = id THEN [itemName |-> "", quantity |-> d] ELSE inv[k]]

\* Inventory.findByIdAndUpdate(id, {$inc: {quantity: d}}): one atomic update
\* of the document, run without the schema's validators; no document with
\* the id: nothing is written
IncQuantity(inv, id, d) ==
    IF Found(inv, id) THEN [inv EXCEPT ![id].quantity = @ + d] ELSE inv

\* Model.findByIdAndDelete(id)
Remove(coll, id) == [k \in DOMAIN coll \ {id} |-> coll[k]]

\* insert of a new document, or write of a loaded one
Put(coll, id, doc) == [k \in DOMAIN coll \cup {id} |-> IF k = id THEN doc ELSE coll[k]]

\* validation of a Delivery document by save(): quantityDelivered is a
\* number and at least 1
DeliveryValid(p) == ~p.nan /\ p.n >= 1

Flash(type, msg, args) == [type |-> type, msg |-> msg, args |-> args]

\* what a handler leaves: the two collections and the flash message
Result(inv, dels, next, fl) ==
    [items |-> inv, deliveries |-> dels, nextId |-> next, flash |-> fl]

\* mutant of the error exit: the message is flashed as a success
RefuseAsSuccess(db, msg, args) ==
    Result(db.items, db.deliveries, db.nextId, Flash("success", msg, args))

\* a handler's error exit before any write
Refuse(db, msg, args) ==
    Result(db.items, db.deliveries, db.nextId, Flash("error", msg, args))

(***************************************************************************)
(* POST /delivery/record                                                   *)
(***************************************************************************)
\* mutants of the stock check: no check; one too lenient
InsufficientStockNever(quantity, p) == FALSE

InsufficientStockOffByOne(quantity, p) == ~p.nan /\ quantity + 1 < p.n

\* inventoryItem.quantity < parseInt(quantityDelivered)
InsufficientStock(quantity, p) == ~p.nan /\ quantity < p.n

\* mutant of record: the delivery is stored, the stock is not decremented
recordHandlerNoDecrement(db, r) ==
    LET p == parseInt(r.quantityDelivered)
        id == r.inventoryId
    IN  IF ~Found(db.items, id)
        THEN Refuse(db, "Inventory item not found", <<>>)
        ELSE IF InsufficientStock(db.items[id].quantity, p)
        THEN Refuse(db, "Insufficient stock",
                    <<db.items[id].itemName, db.items[id].quantity, r.quantityDelivered>>)
        ELSE IF ~DeliveryValid(p)
        THEN Refuse(db, "Error recording delivery", <<>>)
        ELSE Result(db.items,
                    Put(db.deliveries, db.nextId,
                        [inventoryItem |-> id, customerName |-> r.customerName,
                         quantityDelivered |-> p.n, notes |-> r.notes]),
                    db.nextId + 1,
                    Flash("success", "Delivery recorded successfully", <<r.customerName>>))

\* mutant of record: the stock is decremented before the delivery is saved
recordHandlerIncFirst(db, r) ==
    LET p == parseInt(r.quantityDelivered)
        id == r.inventoryId
    IN  IF ~Found(db.items, id)
        THEN Refuse(db, "Inventory item not found", <<>>)
        ELSE IF InsufficientStock(db.items[id].quantity, p)
        THEN Refuse(db, "Insufficient stock",
                    <<db.items[id].itemName, db.items[id].quantity, r.quantityDelivered>>)
        ELSE IF ~DeliveryValid(p)
        THEN Result(IF p.nan THEN db.items ELSE IncQuantity(db.items, id, -p.n),
                    db.deliveries, db.nextId,
                    Flash("error", "Error recording delivery", <<>>))
        ELSE Result(IncQuantity(db.items, id, -p.n),
                    Put(db.deliveries, db.nextId,
                        [inventoryItem |-> id, customerName |-> r.customerName,
                         quantityDelivered |-> p.n, notes |-> r.notes]),
                    db.nextId + 1,
                    Flash("success", "Delivery recorded successfully", <<r.customerName>>))

recordHandler(db, r) ==
    LET p == parseInt(r.quantityDelivered)
        id == r.inventoryId
    IN  IF ~Found(db.items, id)
        THEN Refuse(db, "Inventory item not found", <<>>)
        ELSE IF InsufficientStock(db.items[id].quantity, p)
        THEN Refuse(db, "Insufficient stock",
                    <<db.items[id].itemName, db.items[id].quantity, r.quantityDelivered>>)
        ELSE IF ~DeliveryValid(p)
        THEN Refuse(db, "Error recording delivery", <<>>)
        ELSE Result(IncQuantity(db.items, id, -p.n),
                    Put(db.deliveries, db.nextId,
                        [inventoryItem |-> id, customerName |-> r.customerName,
                         quantityDelivered |-> p.n, notes |-> r.notes]),
                    db.nextId + 1,
                    Flash("success", "Delivery recorded successfully", <<r.customerName>>))

(***************************************************************************)
(* POST /delivery/update/:id                                               *)
(***************************************************************************)
\* parseInt(quantityDelivered) !== delivery.quantityDelivered
QuantityChanged(p, old) == p.nan \/ p.n # old

\* diff = parseInt(quantityDelivered) - delivery.quantityDelivered
Diff(p, old) == IF p.nan THEN NaN ELSE Num(p.n - old)

\* mutants of the update's stock check: strict comparison; no check; the
\* stock is compared with the size of diff also when diff < 0
StockAllowsAbsolute(diff, quantity) ==
    ~diff.nan /\ quantity >= (IF diff.n < 0 THEN -diff.n ELSE diff.n)

StockAllowsStrict(diff, quantity) == ~diff.nan /\ (diff.n < 0 \/ quantity > diff.n)

StockAllowsAlways(diff, quantity) == ~diff.nan

\* diff < 0 || inventoryItem.quantity >= diff
StockAllows(diff, quantity) == ~diff.nan /\ (diff.n < 0 \/ quantity >= diff.n)

\* mutant of the field assignment: notes are not taken from the form
UpdatedFieldsNoNotes(delivery, r, p) ==
    [delivery EXCEPT !.customerName = r.customerName, !.quantityDelivered = p.n]

\* delivery.customerName = ...; delivery.quantityDelivered = ...; delivery.notes = ...
UpdatedFields(delivery, r, p) ==
    [delivery EXCEPT !.customerName = r.customerName,
                     !.quantityDelivered = p.n,
                     !.notes = r.notes]

\* mutant of update: a missing inventory item is passed over without an error
updateHandlerIgnoreDangling(db, r) ==
    LET p == parseInt(r.quantityDelivered)
        id == r.id
    IN  IF ~Found(db.deliveries, id)
        THEN Refuse(db, "Delivery not found", <<>>)
        ELSE
        LET delivery == db.deliveries[id]
            ref == delivery.inventoryItem
            changed == QuantityChanged(p, delivery.quantityDelivered)
                           /\ Found(db.items, ref)
            diff == Diff(p, delivery.quantityDelivered)
        IN  IF changed /\ ~StockAllows(diff, db.items[ref].quantity)
            THEN Refuse(db, "Insufficient stock for quantity update",
                        <<db.items[ref].quantity, diff>>)
            ELSE
            LET adjusted == IF changed THEN IncQuantity(db.items, ref, -diff.n)
                            ELSE db.items
            IN  IF ~DeliveryValid(p)
                THEN Result(adjusted, db.deliveries, db.nextId,
                            Flash("error", "Error updating delivery", <<>>))
                ELSE Result(adjusted,
                            Put(db.deliveries, id, UpdatedFields(delivery, r, p)),
                            db.nextId,
                            Flash("success", "Delivery updated successfully", <<>>))

updateHandler(db, r) ==
    LET p == parseInt(r.quantityDelivered)
        id == r.id
    IN  IF ~Found(db.deliveries, id)
        THEN Refuse(db, "Delivery not found", <<>>)
        ELSE
        LET delivery == db.deliveries[id]
            ref == delivery.inventoryItem
            changed == QuantityChanged(p, delivery.quantityDelivered)
            diff == Diff(p, delivery.quantityDelivered)
        IN  IF changed /\ ~Found(db.items, ref)
            THEN Refuse(db, "Associated inventory item no longer exists", <<>>)
            ELSE IF changed /\ ~StockAllows(diff, db.items[ref].quantity)
            THEN Refuse(db, "Insufficient stock for quantity update",
                        <<db.items[ref].quantity, diff>>)
            ELSE
            LET adjusted == IF changed THEN IncQuantity(db.items, ref, -diff.n)
                            ELSE db.items
            IN  IF ~DeliveryValid(p)
                THEN Result(adjusted, db.deliveries, db.nextId,
                            Flash("error", "Error updating delivery", <<>>))
                ELSE Result(adjusted,
                            Put(db.deliveries, id, UpdatedFields(delivery, r, p)),
                            db.nextId,
                            Flash("success", "Delivery updated successfully", <<>>))

(***************************************************************************)
(* POST /delivery/delete/:id                                               *)
(***************************************************************************)
\* mutant of delete: the delivery is removed, the stock is not restored
deleteHandlerNoRestore(db, r) ==
    IF ~Found(db.deliveries, r.id)
    THEN Refuse(db, "Delivery not found", <<>>)
    ELSE Result(db.items, Remove(db.deliveries, r.id), db.nextId,
                Flash("success", "Delivery deleted successfully", <<>>))

\* mutant of delete: the stock is restored up to a ceiling only
deleteHandlerCapped(db, r) ==
    IF ~Found(db.deliveries, r.id)
    THEN Refuse(db, "Delivery not found", <<>>)
    ELSE LET ref == db.deliveries[r.id].inventoryItem
             q == db.deliveries[r.id].quantityDelivered
         IN  Result(IF Found(db.items, ref) /\ db.items[ref].quantity + q > MaxQty
                    THEN [db.items EXCEPT ![ref].quantity = MaxQty]
                    ELSE IncQuantity(db.items, ref, q),
                    Remove(db.deliveries, r.id), db.nextId,
                    Flash("success", "Delivery deleted successfully", <<>>))

deleteHandler(db, r) ==
    IF ~Found(db.deliveries, r.id)
    THEN Refuse(db, "Delivery not found", <<>>)
    ELSE Result(IncQuantity(db.items, db.deliveries[r.id].inventoryItem,
                            db.deliveries[r.id].quantityDelivered),
                Remove(db.deliveries, r.id),
                db.nextId,
                Flash("success", "Delivery deleted successfully", <<>>))

(***************************************************************************)
(* POST /inventory/delete/:id                                              *)
(***************************************************************************)
\* mutant of item deletion: the deliveries of the item are removed with it
deleteItemHandlerCascade(db, r) ==
    Result(Remove(db.items, r.id),
           [d \in { k \in DOMAIN db.deliveries :
                        db.deliveries[k].inventoryItem # r.id } |-> db.deliveries[d]],
           db.nextId,
           Flash("success", "Item deleted successfully", <<>>))

deleteItemHandler(db, r) ==
    Result(Remove(db.items, r.id), db.deliveries, db.nextId,
           Flash("success", "Item deleted successfully", <<>>))

(***************************************************************************)
(* The requests.                                                           *)
(***************************************************************************)
RecordForms(texts) ==
    { [op |-> "record", inventoryId |-> i, quantityDelivered |-> q,
       customerName |-> t.customerName, notes |-> t.notes] :
      i \in ItemIds, q \in QuantityTexts, t \in texts }

UpdateForms(texts) ==
    { [op |-> "update", id |-> d, quantityDelivered |-> q,
       customerName |-> t.customerName, notes |-> t.notes] :
      d \in DeliveryIds, q \in QuantityTexts, t \in texts }

\* every request the properties ask about
RecordRequests == RecordForms(FormTexts)

UpdateRequests == UpdateForms(FormTexts)

\* the requests submitted along a behaviour
ServedRecordRequests == RecordForms(ServedTexts)

ServedUpdateRequests == UpdateForms(ServedTexts)

DeleteRequests == { [op |-> "delete", id |-> d] : d \in DeliveryIds }

DeleteItemRequests == { [op |-> "deleteItem", id |-> i] : i \in ItemIds }

\* the database as the handlers see it
DB == [items |-> items, deliveries |-> deliveries, nextId |-> nextId]

\* the explored part of the state space
Bounded(out) ==
    /\ out.nextId <= MaxDeliveries + 1
    /\ \A i \in DOMAIN out.items : out.items[i].quantity <= QtyCap

\* history of the record/delete round trip
MarkAfter(r, out) ==
    IF r.op = "record" /\ out.flash.type = "success"
    THEN <<[id |-> nextId, item |-> r.inventoryId,
            before |-> items[r.inventoryId].quantity, deleted |-> FALSE]>>
    ELSE IF mark = <<>> \/ mark[1].deleted THEN <<>>
    ELSE IF r.op = "delete" /\ r.id = mark[1].id /\ out.flash.type = "success"
    THEN <<[mark[1] EXCEPT !.deleted = TRUE]>>
    ELSE IF ~Found(out.items, mark[1].item) \/ out.items[mark[1].item] # items[mark[1].item]
    THEN <<>>
    ELSE mark

\* a request served from start to end
Serve(r, out) ==
    /\ Bounded(out)
    /\ items' = out.items
    /\ deliveries' = out.deliveries
    /\ nextId' = out.nextId
    /\ mark' = MarkAfter(r, out)
    /\ UNCHANGED <<passed, pc, loc>>

Record == \E r \in ServedRecordRequests : Serve(r, recordHandler(DB, r))

Update == \E r \in ServedUpdateRequests : Serve(r, updateHandler(DB, r))

Delete == \E r \in DeleteRequests : Serve(r, deleteHandler(DB, r))

DeleteItem == \E r \in DeleteItemRequests : Serve(r, deleteItemHandler(DB, r))

Init ==
    /\ items \in [ItemIds -> [itemName : {"Shirt", "Cap"}, quantity : 0..MaxQty]]
    /\ \A i \in ItemIds : items[i].itemName = ItemName(i)
    /\ deliveries = <<>>
    /\ nextId = 1
    /\ mark = <<>>
    /\ passed = <<>>
    /\ pc = [p \in Procs |-> "start"]
    /\ loc = [p \in Procs |->
                [r |-> [op |-> "none"], id |-> 0, matched |-> FALSE,
                 flash |-> Flash("none", "", <<>>)]]

Next == Record \/ Update \/ Delete \/ DeleteItem

Spec == Init /\ [][Next]_vars

(***************************************************************************)
(* Concurrent requests: POST /delivery/record step by step.  A step is one *)
(* awaited database call with the synchronous code that follows it.        *)
(***************************************************************************)
\* the handler returns: flash and redirect
Respond(p, fl) ==
    /\ pc' = [pc EXCEPT ![p] = "done"]
    /\ loc' = [loc EXCEPT ![p].flash = fl]

\* await Inventory.findById(inventoryId), then the stock check
RecordFind(p) ==
    /\ pc[p] = "start"
    /\ \E r \in ServedRecordRequests :
        LET id == r.inventoryId
            q == parseInt(r.quantityDelivered)
        IN  IF ~Found(items, id)
            THEN /\ pc' = [pc EXCEPT ![p] = "done"]
                 /\ loc' = [loc EXCEPT ![p].r = r,
                                       ![p].flash = Flash("error", "Inventory item not found", <<>>)]
            ELSE IF InsufficientStock(items[id].quantity, q)
            THEN /\ pc' = [pc EXCEPT ![p] = "done"]
                 /\ loc' = [loc EXCEPT ![p].r = r,
                                       ![p].flash = Flash("error", "Insufficient stock",
                                                          <<items[id].itemName, items[id].quantity,
                                                            r.quantityDelivered>>)]
            ELSE /\ pc' = [pc EXCEPT ![p] = "save"]
                 /\ loc' = [loc EXCEPT ![p].r = r]
    /\ UNCHANGED <<items, deliveries, nextId, mark, passed>>

\* await delivery.save()
RecordSave(p) ==
    /\ pc[p] = "save"
    /\ LET r == loc[p].r
           q == parseInt(r.quantityDelivered)
       IN  IF ~DeliveryValid(q)
           THEN /\ Respond(p, Flash("error", "Error recording delivery", <<>>))
                /\ UNCHANGED <<deliveries, nextId>>
           ELSE /\ deliveries' = Put(deliveries, nextId,
                                     [inventoryItem |-> r.inventoryId,
                                      customerName |-> r.customerName,
                                      quantityDelivered |-> q.n, notes |-> r.notes])
                /\ nextId' = nextId + 1
                /\ pc' = [pc EXCEPT ![p] = "inc"]
                /\ loc' = [loc EXCEPT ![p].id = nextId]
    /\ UNCHANGED <<items, mark, passed>>

\* await Inventory.findByIdAndUpdate(inventoryId, {$inc: {quantity: -q}})
RecordInc(p) ==
    /\ pc[p] = "inc"
    /\ LET r == loc[p].r
           q == parseInt(r.quantityDelivered)
       IN  /\ items' = IncQuantity(items, r.inventoryId, -q.n)
           /\ pc' = [pc EXCEPT ![p] = "done"]
           /\ loc' = [loc EXCEPT ![p].matched = Found(items, r.inventoryId),
                                 ![p].flash = Flash("success", "Delivery recorded successfully",
                                                    <<r.customerName>>)]
    /\ UNCHANGED <<deliveries, nextId, mark, passed>>

NextConc ==
    \/ \E p \in Procs : RecordFind(p)
    \/ \E p \in Procs : RecordSave(p)
    \/ \E p \in Procs : RecordInc(p)
    \/ DeleteItem

SpecConc == Init /\ [][NextConc]_vars

(***************************************************************************)
(* Barcode allocation: generateBarcode of src/routes/inventory.js.         *)
(* Math.random is the environment: a candidate is an array of 12 digits,   *)
(* and the candidates one call draws form a stream.                        *)
(***************************************************************************)
\* const maxAttempts = 100
maxAttempts == 100
\* [...Array(12)]: the number of digits drawn for a candidate
BarcodeLength == 12
\* the candidates drawn along a behaviour differ in their last digit, which
\* runs over 0..MaxDraw
MaxDraw == 1

\* [...Array(12)].map(() => Math.floor(Math.random() * 10))
Draws ==
    { [k \in 1..BarcodeLength |-> IF k = BarcodeLength THEN d ELSE k % 10] :
          d \in 0..MaxDraw }

\* mutant of join: the last digit is lost
JoinDigitsShort(a) == [k \in 1..(Len(a) - 1) |-> DigitChars[a[k] + 1]]

\* a.join(''): the text of an array of digits
JoinDigits(a) == [k \in 1..Len(a) |-> DigitChars[a[k] + 1]]

\* JoinDigits of the candidates, computed once
JoinedDraws == [a \in Draws |-> JoinDigits(a)]

\* the barcode text of the candidate of attempt j
CandidateAt(st, j) == JoinedDraws[IF j < st.switch THEN st.first ELSE st.rest]

\* the candidates a call draws, attempt after attempt: `first` before the
\* attempt numbered `switch`, `rest` from there on
StreamSwitches == {1, 2, maxAttempts, maxAttempts + 1}

DrawStreams ==
    { st \in [switch : StreamSwitches, first : Draws, rest : Draws] :
          (st.switch = 1) = (st.first = st.rest) }

\* mutant of the lookup: nothing is ever found
BarcodeExistsNever(inv, barcode) == FALSE

\* await Inventory.findOne({ barcode }).lean()
BarcodeExists(inv, barcode) == \E i \in DOMAIN inv : inv[i].barcode = barcode

\* outcome of a call: the barcode returned or the error thrown, and the
\* number of findOne lookups the call made
Returned(barcode, lookups) ==
    [thrown |-> FALSE, barcode |-> barcode, lookups |-> lookups]

Thrown(lookups) == [thrown |-> TRUE, barcode |-> <<>>, lookups |-> lookups]

\* the attempts of 1..n whose candidate is not stored
FreeAttempts(inv, st, n) ==
    { j \in 1..n : ~BarcodeExists(inv, CandidateAt(st, j)) }

\* the while loop run for at most n attempts: the first attempt whose
\* candidate is not stored returns it; n collisions end the loop
DrawUntilFree(inv, st, n) ==
    LET free == FreeAttempts(inv, st, n)
    IN  IF free = {} THEN Thrown(n)
        ELSE LET j == CHOOSE k \in free : \A m \in 1..(k - 1) : m \notin free
             IN  Returned(CandidateAt(st, j), j)

\* mutant of the loop: while (attempts <= maxAttempts)
generateBarcodeOneMore(inv, st) == DrawUntilFree(inv, st, maxAttempts + 1)

\* let attempts = 0; while (attempts < maxAttempts) { ... attempts++ }; throw
generateBarcode(inv, st) == DrawUntilFree(inv, st, maxAttempts)

(***************************************************************************)
(* POST /inventory/add: create an item per size, or add to the item that   *)
(* has the same itemName, category, size and color.                        *)
(***************************************************************************)
\* longest sizes[] and quantities[] array of a form
MaxSizes == 2

Sizes == {"S", "M"}

\* the quantity texts of the add forms
AddQuantityTexts == { NumberText(n) : n \in -1..1 } \cup { <<"a", "b", "c">> }

\* a form field sent once arrives as a string, sent several times as an array
One(v) == [isArray |-> FALSE, value |-> v]

Many(vs) == [isArray |-> TRUE, value |-> vs]

\* the arrays of length 1..MaxSizes over S
Arrays(S) == UNION { [1..n -> S] : n \in 1..MaxSizes }

\* the forms: one size with one quantity, an array of sizes with an array of
\* quantities of the same length or shorter, an array of sizes with one quantity
AddFields ==
    { [sizes |-> One(z), quantities |-> One(q)] :
          z \in Sizes, q \in AddQuantityTexts }
    \cup { f \in [sizes : { Many(a) : a \in Arrays(Sizes) },
                  quantities : { Many(a) : a \in Arrays(AddQuantityTexts) }] :
               Len(f.quantities.value) <= Len(f.sizes.value) }
    \cup { [sizes |-> Many(a), quantities |-> One(q)] :
               a \in Arrays(Sizes), q \in AddQuantityTexts }

AddRequests ==
    { [op |-> "add", itemName |-> "Shirt", category |-> "Tops", color |-> "Red",
       price |-> 10, description |-> "", sizes |-> f.sizes,
       quantities |-> f.quantities] : f \in AddFields }

\* the forms with every price and description
AddPrices == {10, 25}

AddDescriptions == {"", "restocked"}

PricedAddRequests ==
    { [r EXCEPT !.price = pr, !.description = de] :
          r \in AddRequests, pr \in AddPrices, de \in AddDescriptions }

\* Array.isArray(sizes) ? sizes : [sizes]
sizeArray(r) == IF r.sizes.isArray THEN r.sizes.value ELSE <<r.sizes.value>>

\* Array.isArray(quantities) ? quantities.map((q) => parseInt(q))
\*                           : [parseInt(quantities)]
quantityArray(r) ==
    IF r.quantities.isArray
    THEN [k \in 1..Len(r.quantities.value) |-> parseInt(r.quantities.value[k])]
    ELSE <<parseInt(r.quantities.value)>>

\* quantityArray[i] ?? 0, for the i-th size (counted from 1)
QtyAt(r, i) == IF i <= Len(quantityArray(r)) THEN quantityArray(r)[i] ELSE Num(0)

\* if (!qty) continue: 0 and NaN are falsy
Skipped(qty) == qty.nan \/ qty.n = 0

\* the key of findOne({ itemName, category, size, color })
Sku(r, size) ==
    [itemName |-> r.itemName, category |-> r.category, size |-> size,
     color |-> r.color]

SkuOf(doc) ==
    [itemName |-> doc.itemName, category |-> doc.category, size |-> doc.size,
     color |-> doc.color]

Skus == { Sku(r, z) : r \in AddRequests, z \in Sizes }

\* ids of the items with a key
WithSku(inv, sku) == { i \in DOMAIN inv : SkuOf(inv[i]) = sku }

\* the document findOne returns: the first one stored
FirstOf(ids) ==
    IF Cardinality(ids) = 1 THEN CHOOSE i \in ids : TRUE
    ELSE CHOOSE i \in ids : \A j \in ids : i <= j

\* ObjectId of a new item: ids run in the order of creation
FreshItemId(inv) == Cardinality(DOMAIN inv) + 1

\* Inventory schema: a document is accepted by save() when quantity >= 0;
\* no unique index rejects a barcode that is already stored
InventoryValid(doc) == doc.quantity >= 0

\* new Inventory({ itemName, category, size, color, barcode, quantity, ... })
NewItem(r, size, barcode, qty) ==
    [itemName |-> r.itemName, category |-> r.category, size |-> size,
     color |-> r.color, barcode |-> barcode, quantity |-> qty,
     price |-> r.price, description |-> r.description]

\* the success message of the handler
AddMessage(created, updated) ==
    IF created > 0 /\ updated > 0 THEN "Added new size(s) and updated existing size(s)"
    ELSE IF created > 0 THEN "Successfully added size(s)"
    ELSE IF updated > 0 THEN "Updated quantities for existing size(s)"
    ELSE "No items were added (all quantities were 0)"

\* outcome of the loop over the sizes: the collection, the counters, and
\* the message of the error thrown ("" when none)
LoopEnd(inv, created, updated, error) ==
    [items |-> inv, created |-> created, updated |-> updated, error |-> error]

\* mutant of the increment: price and description are taken from the form
IncrementedRepriced(doc, r, qty) ==
    [doc EXCEPT !.quantity = @ + qty.n, !.price = r.price,
                !.description = r.description]

\* existingItem.quantity += qty
Incremented(doc, r, qty) == [doc EXCEPT !.quantity = @ + qty.n]

RECURSIVE addLoop(_, _, _, _, _, _)
\* for (let i = 0; i < sizeArray.length; i++), from the i-th size on;
\* streams[i] holds the candidates generateBarcode draws for the i-th size
addLoop(inv, r, streams, i, created, updated) ==
    IF i > Len(sizeArray(r)) THEN LoopEnd(inv, created, updated, "")
    ELSE
    LET size == sizeArray(r)[i]
        qty == QtyAt(r, i)
        existing == WithSku(inv, Sku(r, size))
    IN  IF Skipped(qty) THEN addLoop(inv, r, streams, i + 1, created, updated)
        ELSE IF existing # {}
        THEN LET id == FirstOf(existing)
                 doc == Incremented(inv[id], r, qty)
             IN  IF ~InventoryValid(doc)
                 THEN LoopEnd(inv, created, updated, "Validation failed")
                 ELSE addLoop(Put(inv, id, doc), r, streams, i + 1,
                              created, updated + 1)
        ELSE LET alloc == generateBarcode(inv, streams[i])
                 doc == NewItem(r, size, alloc.barcode, qty.n)
             IN  IF alloc.thrown
                 THEN LoopEnd(inv, created, updated,
                              "Could not generate a unique barcode after 100 attempts.")
                 ELSE IF ~InventoryValid(doc)
                 THEN LoopEnd(inv, created, updated, "Validation failed")
                 ELSE addLoop(Put(inv, FreshItemId(inv), doc), r, streams, i + 1,
                              created + 1, updated)

addHandler(db, r, streams) ==
    LET end == addLoop(db.items, r, streams, 1, 0, 0)
    IN  Result(end.items, db.deliveries, db.nextId,
               IF end.error = ""
               THEN Flash("success", AddMessage(end.created, end.updated), <<r.itemName>>)
               ELSE Flash("error", "Error adding item", <<end.error>>))

RECURSIVE PositivePassed(_, _, _)
\* sum of the positive quantities a form passes for a key, sizes i and up
PositivePassed(r, sku, i) ==
    IF i > Len(sizeArray(r)) THEN 0
    ELSE (IF Sku(r, sizeArray(r)[i]) = sku /\ ~QtyAt(r, i).nan /\ QtyAt(r, i).n > 0
          THEN QtyAt(r, i).n ELSE 0)
         + PositivePassed(r, sku, i + 1)

PassedAfter(r) == [sku \in Skus |-> passed[sku] + PositivePassed(r, sku, 1)]

\* the candidates drawn along a behaviour: one candidate over and over, or
\* one candidate for maxAttempts - 1 draws and another one then; the calls of
\* one request draw alike
ServedStreams == { st \in DrawStreams : st.switch \in {1, maxAttempts} }

\* a request served from start to end
Add ==
    \E r \in AddRequests, st \in ServedStreams :
        LET out == addHandler(DB, r, [i \in 1..MaxSizes |-> st])
        IN  /\ Bounded(out)
            /\ \A sku \in Skus : PassedAfter(r)[sku] <= QtyCap
            /\ items' = out.items
            /\ passed' = PassedAfter(r)
            /\ UNCHANGED <<deliveries, nextId, mark, pc, loc>>

InitAdd ==
    /\ items = <<>>
    /\ deliveries = <<>>
    /\ nextId = 1
    /\ mark = <<>>
    /\ passed = [sku \in Skus |-> 0]
    /\ pc = [p \in Procs |-> "start"]
    /\ loc = [p \in Procs |->
                [r |-> [op |-> "none"], id |-> 0, matched |-> FALSE,
                 flash |-> Flash("none", "", <<>>)]]

NextAdd == Add

SpecAdd == InitAdd /\ [][NextAdd]_vars

(***************************************************************************)
(* Concurrent requests: POST /inventory/add step by step.  A step is one   *)
(* awaited database call with the synchronous code that follows it, up to  *)
(* the next await or the response.                                         *)
(***************************************************************************)
\* the forms submitted concurrently: one size with one quantity
ConcAddRequests == { r \in AddRequests : ~r.sizes.isArray /\ ~r.quantities.isArray }

RECURSIVE NextIndex(_, _)
\* the first size from the i-th on whose quantity is not skipped, or one
\* past the last size
NextIndex(r, i) ==
    IF i > Len(sizeArray(r)) \/ ~Skipped(QtyAt(r, i)) THEN i
    ELSE NextIndex(r, i + 1)

\* the loop goes on from the i-th size with locals l: to the next findOne
\* or, past the last size, to the success flash
Continue(p, l, i) ==
    LET j == NextIndex(l.r, i)
    IN  IF j > Len(sizeArray(l.r))
        THEN /\ pc' = [pc EXCEPT ![p] = "done"]
             /\ loc' = [loc EXCEPT ![p] =
                            [l EXCEPT !.i = j,
                                      !.flash = Flash("success",
                                                      AddMessage(l.created, l.updated),
                                                      <<l.r.itemName>>)]]
        ELSE /\ pc' = [pc EXCEPT ![p] = "find"]
             /\ loc' = [loc EXCEPT ![p] = [l EXCEPT !.i = j]]

\* the catch block: flash the error and redirect
Fail(p, error) ==
    /\ pc' = [pc EXCEPT ![p] = "done"]
    /\ loc' = [loc EXCEPT ![p].flash = Flash("error", "Error adding item", <<error>>)]

\* the request arrives: the arrays are built and the loop is entered
AddStart(p) ==
    /\ pc[p] = "start"
    /\ \E r \in ConcAddRequests :
           /\ passed' = PassedAfter(r)
           /\ Continue(p, [loc[p] EXCEPT !.r = r], 1)
    /\ UNCHANGED <<items, deliveries, nextId, mark>>

\* await Inventory.findOne({ itemName, category, size, color }); a document
\* found gets quantity += qty in memory, none found enters generateBarcode,
\* which draws its first candidate
AddFind(p) ==
    /\ pc[p] = "find"
    /\ LET r == loc[p].r
           existing == WithSku(items, Sku(r, sizeArray(r)[loc[p].i]))
       IN  IF existing # {}
           THEN /\ pc' = [pc EXCEPT ![p] = "saveExisting"]
                /\ loc' = [loc EXCEPT
                              ![p].id = FirstOf(existing),
                              ![p].quantity = items[FirstOf(existing)].quantity
                                                  + QtyAt(r, loc[p].i).n]
           ELSE /\ pc' = [pc EXCEPT ![p] = "lookup"]
                /\ \E a \in Draws :
                       loc' = [loc EXCEPT ![p].attempts = 0,
                                          ![p].barcode = JoinedDraws[a]]
    /\ UNCHANGED <<items, deliveries, nextId, mark, passed>>

\* await existingItem.save(); itemsUpdated++
AddSave(p) ==
    /\ pc[p] = "saveExisting"
    /\ LET doc == [items[loc[p].id] EXCEPT !.quantity = loc[p].quantity]
       IN  IF ~InventoryValid(doc)
           THEN /\ Fail(p, "Validation failed")
                /\ UNCHANGED items
           ELSE /\ items' = Put(items, loc[p].id, doc)
                /\ Continue(p, [loc[p] EXCEPT !.updated = @ + 1], loc[p].i + 1)
    /\ UNCHANGED <<deliveries, nextId, mark, passed>>

\* mutant of the loop condition: while (attempts <= maxAttempts)
LoopGoesOnOneMore(attempts) == attempts <= maxAttempts

\* while (attempts < maxAttempts)
LoopGoesOn(attempts) == attempts < maxAttempts

\* await Inventory.findOne({ barcode }).lean() in generateBarcode: a free
\* candidate is returned; a stored one counts an attempt, and the loop draws
\* again or, after maxAttempts, throws
AddLookup(p) ==
    /\ pc[p] = "lookup"
    /\ IF ~BarcodeExists(items, loc[p].barcode)
       THEN /\ pc' = [pc EXCEPT ![p] = "create"]
            /\ UNCHANGED loc
       ELSE IF LoopGoesOn(loc[p].attempts + 1)
       THEN /\ \E a \in Draws :
                   loc' = [loc EXCEPT ![p].attempts = @ + 1,
                                      ![p].barcode = JoinedDraws[a]]
            /\ UNCHANGED pc
       ELSE /\ pc' = [pc EXCEPT ![p] = "done"]
            /\ loc' = [loc EXCEPT
                          ![p].attempts = @ + 1,
                          ![p].flash = Flash("error", "Error adding item",
                                             <<"Could not generate a unique barcode after 100 attempts.">>)]
    /\ UNCHANGED <<items, deliveries, nextId, mark, passed>>

\* await newItem.save(); itemsCreated++
AddCreate(p) ==
    /\ pc[p] = "create"
    /\ LET r == loc[p].r
           doc == NewItem(r, sizeArray(r)[loc[p].i], loc[p].barcode,
                          QtyAt(r, loc[p].i).n)
       IN  IF ~InventoryValid(doc)
           THEN /\ Fail(p, "Validation failed")
                /\ UNCHANGED items
           ELSE /\ items' = Put(items, FreshItemId(items), doc)
                /\ Continue(p, [loc[p] EXCEPT !.created = @ + 1], loc[p].i + 1)
    /\ UNCHANGED <<deliveries, nextId, mark, passed>>

InitAddConc ==
    /\ items = <<>>
    /\ deliveries = <<>>
    /\ nextId = 1
    /\ mark = <<>>
    /\ passed = [sku \in Skus |-> 0]
    /\ pc = [p \in Procs |-> "start"]
    /\ loc = [p \in Procs |->
                [r |-> [op |-> "none"], i |-> 0, id |-> 0, quantity |-> 0,
                 barcode |-> <<>>, attempts |-> 0, created |-> 0, updated |-> 0,
                 flash |-> Flash("none", "", <<>>)]]

NextAddConc ==
    \/ \E p \in Procs : AddStart(p)
    \/ \E p \in Procs : AddFind(p)
    \/ \E p \in Procs : AddSave(p)
    \/ \E p \in Procs : AddLookup(p)
    \/ \E p \in Procs : AddCreate(p)

SpecAddConc == InitAddConc /\ [][NextAddConc]_vars

\* the event loop resumes a handler whose awaited lookup has resolved
SpecAddConcFair == SpecAddConc /\ \A p \in Procs : WF_vars(AddLookup(p))

(***************************************************************************)
(* POST /inventory/update-stock/:id and POST /inventory/edit/:id: the      *)
(* catalog operations that set an item's quantity directly.                *)
(* findByIdAndUpdate casts the values of the update and throws on a value  *)
(* that is no number; it runs no schema validator, the call passing no     *)
(* runValidators option.                                                   *)
(***************************************************************************)
\* Inventory.findByIdAndUpdate(id, fields): the fields of the document with
\* that id are set; nothing is written when no document has the id
SetFields(inv, id, fields) ==
    IF id \in DOMAIN inv
    THEN [inv EXCEPT ![id] = [f \in DOMAIN @ |->
                                 IF f \in DOMAIN fields THEN fields[f] ELSE @[f]]]
    ELSE inv

updateStockHandler(db, r) ==
    LET p == parseInt(r.quantity)
    IN  IF p.nan
        THEN Result(db.items, db.deliveries, db.nextId,
                    Flash("error", "Error updating stock", <<>>))
        ELSE Result(SetFields(db.items, r.id, [quantity |-> p.n]),
                    db.deliveries, db.nextId,
                    Flash("success", "Stock updated successfully", <<>>))

editHandler(db, r) ==
    LET p == parseInt(r.quantity)
    IN  IF p.nan
        THEN Result(db.items, db.deliveries, db.nextId,
                    Flash("error", "Error updating item", <<>>))
        ELSE Result(SetFields(db.items, r.id,
                              [itemName |-> r.itemName, category |-> r.category,
                               size |-> r.size, color |-> r.color,
                               quantity |-> p.n, price |-> r.price,
                               description |-> r.description]),
                    db.deliveries, db.nextId,
                    Flash("success", "Item updated successfully", <<>>))

UpdateStockRequests ==
    { [op |-> "updateStock", id |-> i, quantity |-> q] :
          i \in ItemIds, q \in QuantityTexts }

\* the edit forms: the page's fields resubmitted with a quantity and a price
EditRequests ==
    { [op |-> "edit", id |-> i, itemName |-> ItemName(i), category |-> "Tops",
       size |-> "S", color |-> "Red", quantity |-> q, price |-> pr,
       description |-> ""] :
          i \in ItemIds, q \in QuantityTexts, pr \in AddPrices }

UpdateStock == \E r \in UpdateStockRequests : Serve(r, updateStockHandler(DB, r))

EditItem == \E r \in EditRequests : Serve(r, editHandler(DB, r))

\* the catalog's documents with all their fields
StockItem(i, q) ==
    [itemName |-> ItemName(i), category |-> "Tops", size |-> "S", color |-> "Red",
     barcode |-> JoinDigits([k \in 1..BarcodeLength |->
                                IF k = BarcodeLength /\ i = "i1" THEN 0 ELSE k % 10]),
     quantity |-> q, price |-> 10, description |-> ""]

InitStock ==
    /\ \E q \in [ItemIds -> 0..MaxQty] : items = [i \in ItemIds |-> StockItem(i, q[i])]
    /\ deliveries = <<>>
    /\ nextId = 1
    /\ mark = <<>>
    /\ passed = <<>>
    /\ pc = [p \in Procs |-> "start"]
    /\ loc = [p \in Procs |->
                [r |-> [op |-> "none"], id |-> 0, matched |-> FALSE,
                 flash |-> Flash("none", "", <<>>)]]

NextStock == Record \/ Update \/ Delete \/ DeleteItem \/ UpdateStock \/ EditItem

\* delivery requests and catalog operations, served one at a time
SpecStock == InitStock /\ [][NextStock]_vars

(***************************************************************************)
(* Concurrent requests on one delivery and one item: POST                  *)
(* /delivery/update/:id and POST /delivery/delete/:id step by step, next   *)
(* to the steps of POST /delivery/record and POST /inventory/add.  The     *)
(* catalog holds the items of ItemIds and one delivery of the first.       *)
(***************************************************************************)
\* the delivery stored at the start
StoredDeliveryId == 1

StoredDelivery(q) ==
    [inventoryItem |-> "i1", customerName |-> "Alice",
     quantityDelivered |-> q, notes |-> ""]

\* the request ends in the catch block or with an early return
Stop(p, r, fl) ==
    /\ pc' = [pc EXCEPT ![p] = "done"]
    /\ loc' = [loc EXCEPT ![p].r = r, ![p].flash = fl]

\* const delivery = await Delivery.findById(req.params.id), then the
\* comparison of the quantities
UpdateFind(p) ==
    /\ pc[p] = "start"
    /\ \E r \in ServedUpdateRequests :
           IF ~Found(deliveries, r.id)
           THEN Stop(p, r, Flash("error", "Delivery not found", <<>>))
           ELSE /\ pc' = [pc EXCEPT ![p] =
                             IF QuantityChanged(parseInt(r.quantityDelivered),
                                                deliveries[r.id].quantityDelivered)
                             THEN "updateFindItem" ELSE "updateSave"]
                /\ loc' = [loc EXCEPT ![p].r = r, ![p].delivery = deliveries[r.id]]
    /\ UNCHANGED <<items, deliveries, nextId, mark, passed>>

\* const inventoryItem = await Inventory.findById(delivery.inventoryItem),
\* then the stock check against the quantity just read
UpdateFindItem(p) ==
    /\ pc[p] = "updateFindItem"
    /\ LET r == loc[p].r
           id == loc[p].delivery.inventoryItem
           diff == Diff(parseInt(r.quantityDelivered), loc[p].delivery.quantityDelivered)
       IN  IF ~Found(items, id)
           THEN Stop(p, r, Flash("error", "Associated inventory item no longer exists", <<>>))
           ELSE IF StockAllows(diff, items[id].quantity)
           THEN /\ pc' = [pc EXCEPT ![p] = "updateInc"]
                /\ UNCHANGED loc
           ELSE Stop(p, r, Flash("error", "Insufficient stock for quantity update",
                                 <<items[id].quantity, diff>>))
    /\ UNCHANGED <<items, deliveries, nextId, mark, passed>>

\* await Inventory.findByIdAndUpdate(delivery.inventoryItem, {$inc: {quantity: -diff}})
UpdateInc(p) ==
    /\ pc[p] = "updateInc"
    /\ LET id == loc[p].delivery.inventoryItem
           diff == Diff(parseInt(loc[p].r.quantityDelivered),
                        loc[p].delivery.quantityDelivered)
       IN  /\ items' = IncQuantity(items, id, -diff.n)
           /\ loc' = [loc EXCEPT ![p].matched = Found(items, id)]
    /\ pc' = [pc EXCEPT ![p] = "updateSave"]
    /\ UNCHANGED <<deliveries, nextId, mark, passed>>

\* the fields of doc that differ from the loaded document: save() writes
\* these and no other
Modified(loaded, doc) == { f \in DOMAIN doc : doc[f] # loaded[f] }

\* the stored document after the write of the modified fields
Written(stored, doc, fields) ==
    [f \in DOMAIN stored |-> IF f \in fields THEN doc[f] ELSE stored[f]]

\* the three assignments and await delivery.save(): the document is
\* validated, and its modified fields are written to the stored document;
\* a save that finds the document deleted throws
UpdateSave(p) ==
    /\ pc[p] = "updateSave"
    /\ LET r == loc[p].r
           q == parseInt(r.quantityDelivered)
           doc == UpdatedFields(loc[p].delivery, r, q)
           fields == Modified(loc[p].delivery, doc)
       IN  IF ~DeliveryValid(q)
           THEN /\ Respond(p, Flash("error", "Error updating delivery", <<>>))
                /\ UNCHANGED deliveries
           ELSE IF fields = {}
           THEN /\ Respond(p, Flash("success", "Delivery updated successfully", <<>>))
                /\ UNCHANGED deliveries
           ELSE IF ~Found(deliveries, r.id)
           THEN /\ Respond(p, Flash("error", "Error updating delivery", <<>>))
                /\ UNCHANGED deliveries
           ELSE /\ deliveries' = [deliveries EXCEPT ![r.id] = Written(@, doc, fields)]
                /\ Respond(p, Flash("success", "Delivery updated successfully", <<>>))
    /\ UNCHANGED <<items, nextId, mark, passed>>

\* const delivery = await Delivery.findById(req.params.id)
DeleteFind(p) ==
    /\ pc[p] = "start"
    /\ \E r \in DeleteRequests :
           IF ~Found(deliveries, r.id)
           THEN Stop(p, r, Flash("error", "Delivery not found", <<>>))
           ELSE /\ pc' = [pc EXCEPT ![p] = "deleteInc"]
                /\ loc' = [loc EXCEPT ![p].r = r, ![p].delivery = deliveries[r.id]]
    /\ UNCHANGED <<items, deliveries, nextId, mark, passed>>

\* await Inventory.findByIdAndUpdate(delivery.inventoryItem,
\*                                   {$inc: {quantity: delivery.quantityDelivered}})
DeleteInc(p) ==
    /\ pc[p] = "deleteInc"
    /\ LET id == loc[p].delivery.inventoryItem
       IN  /\ items' = IncQuantity(items, id, loc[p].delivery.quantityDelivered)
           /\ loc' = [loc EXCEPT ![p].matched = Found(items, id)]
    /\ pc' = [pc EXCEPT ![p] = "deleteRemove"]
    /\ UNCHANGED <<deliveries, nextId, mark, passed>>

\* await Delivery.findByIdAndDelete(req.params.id), flash and redirect
DeleteRemove(p) ==
    /\ pc[p] = "deleteRemove"
    /\ deliveries' = Remove(deliveries, loc[p].r.id)
    /\ Respond(p, Flash("success", "Delivery deleted successfully", <<>>))
    /\ UNCHANGED <<items, nextId, mark, passed>>

\* the form names stored items only
NamesStored(r) ==
    \A k \in 1..Len(sizeArray(r)) : WithSku(items, Sku(r, sizeArray(r)[k])) # {}

\* POST /inventory/add arrives for items the catalog holds
AddStartStored(p) == AddStart(p) /\ NamesStored(loc'[p].r)

InitMix ==
    /\ \E q \in [ItemIds -> 0..MaxQty] : items = [i \in ItemIds |-> StockItem(i, q[i])]
    /\ \E q \in 1..MaxQty : deliveries = Put(<<>>, StoredDeliveryId, StoredDelivery(q))
    /\ nextId = StoredDeliveryId + 1
    /\ mark = <<[id |-> StoredDeliveryId,
                 item |-> deliveries[StoredDeliveryId].inventoryItem,
                 before |-> items[deliveries[StoredDeliveryId].inventoryItem].quantity,
                 delivered |-> deliveries[StoredDeliveryId].quantityDelivered,
                 deleted |-> FALSE]>>
    /\ passed = [sku \in Skus |-> 0]
    /\ pc = [p \in Procs |-> "start"]
    /\ loc = [p \in Procs |->
                [r |-> [op |-> "none"], i |-> 0, id |-> 0, quantity |-> 0,
                 barcode |-> <<>>, attempts |-> 0, created |-> 0, updated |-> 0,
                 matched |-> FALSE, delivery |-> StoredDelivery(0),
                 flash |-> Flash("none", "", <<>>)]]

NextMix ==
    \/ \E p \in Procs : RecordFind(p)
    \/ \E p \in Procs : RecordSave(p)
    \/ \E p \in Procs : RecordInc(p)
    \/ \E p \in Procs : UpdateFind(p)
    \/ \E p \in Procs : UpdateFindItem(p)
    \/ \E p \in Procs : UpdateInc(p)
    \/ \E p \in Procs : UpdateSave(p)
    \/ \E p \in Procs : DeleteFind(p)
    \/ \E p \in Procs : DeleteInc(p)
    \/ \E p \in Procs : DeleteRemove(p)
    \/ \E p \in Procs : AddStartStored(p)
    \/ \E p \in Procs : AddFind(p)
    \/ \E p \in Procs : AddSave(p)

SpecMix == InitMix /\ [][NextMix]_vars

(***************************************************************************)
(* Stock status: the Excel report of src/routes/reports.js, the export-all *)
(* sheet of src/routes/inventory.js and the counts of the dashboard of     *)
(* src/routes/dashboard.js.                                                *)
(***************************************************************************)
\* the quantity up to which an item counts as low on stock
LowStockLimit == 10

\* the quantities of the catalogs the reports are drawn from
StatusQuantities == 0..(LowStockLimit + 2)

\* reports.js: item.quantity <= 10 ? 'Low Stock'
\*                 : item.quantity === 0 ? 'Out of Stock' : 'In Stock'
excelStatus(quantity) ==
    IF quantity <= LowStockLimit THEN "Low Stock"
    ELSE IF quantity = 0 THEN "Out of Stock"
    ELSE "In Stock"

\* inventory.js: item.quantity === 0 ? 'Out of Stock'
\*                   : item.quantity <= 10 ? 'Low Stock' : 'In Stock'
exportStatus(quantity) ==
    IF quantity = 0 THEN "Out of Stock"
    ELSE IF quantity <= LowStockLimit THEN "Low Stock"
    ELSE "In Stock"

\* Inventory.countDocuments({ quantity: { $lte: 10, $gt: 0 } })
lowStockItems(inv) ==
    Cardinality({ i \in DOMAIN inv :
                      inv[i].quantity <= LowStockLimit /\ inv[i].quantity > 0 })

\* Inventory.countDocuments({ quantity: 0 })
outOfStockItems(inv) == Cardinality({ i \in DOMAIN inv : inv[i].quantity = 0 })

\* a GET request is answered with the rows or counts it computed
Answer(p, op, rows) ==
    /\ pc[p] = "start"
    /\ pc' = [pc EXCEPT ![p] = "done"]
    /\ loc' = [loc EXCEPT ![p].r = [op |-> op], ![p].rows = rows]
    /\ UNCHANGED <<items, deliveries, nextId, mark, passed>>

\* GET /reports/inventory/excel: the Status column
ExcelReport(p) ==
    Answer(p, "excel", [i \in DOMAIN items |-> excelStatus(items[i].quantity)])

\* GET /inventory/export-all: the status column
ExportAll(p) ==
    Answer(p, "export", [i \in DOMAIN items |-> exportStatus(items[i].quantity)])

\* GET /: the statistics of the dashboard
Dashboard(p) ==
    Answer(p, "dashboard",
           [lowStockItems |-> lowStockItems(items),
            outOfStockItems |-> outOfStockItems(items)])

InitStatus ==
    /\ \E q \in [ItemIds -> StatusQuantities] :
           items = [i \in ItemIds |-> [itemName |-> ItemName(i), quantity |-> q[i]]]
    /\ deliveries = <<>>
    /\ nextId = 1
    /\ mark = <<>>
    /\ passed = <<>>
    /\ pc = [p \in Procs |-> "start"]
    /\ loc = [p \in Procs |-> [r |-> [op |-> "none"], rows |-> <<>>]]

NextStatus ==
    \/ \E p \in Procs : ExcelReport(p)
    \/ \E p \in Procs : ExportAll(p)
    \/ \E p \in Procs : Dashboard(p)

\* the reports drawn from a catalog
SpecStatus == InitStatus /\ [][NextStatus]_vars

(***************************************************************************)
(* Properties of the handlers, served one request at a time (Spec).        *)
(***************************************************************************)
DeliveryRequests == RecordRequests \cup UpdateRequests \cup DeleteRequests

\* the handler of a delivery request
Handle(db, r) ==
    IF r.op = "record" THEN recordHandler(db, r)
    ELSE IF r.op = "update" THEN updateHandler(db, r)
    ELSE deleteHandler(db, r)

RECURSIVE SumDelivered(_, _)
\* sum of quantityDelivered over the deliveries with ids in S
SumDelivered(dels, S) ==
    IF S = {} THEN 0
    ELSE LET d == CHOOSE x \in S : TRUE
         IN  dels[d].quantityDelivered + SumDelivered(dels, S \ {d})

\* on-hand quantity of item i plus what the stored deliveries took from it
Ledger(db, i) ==
    db.items[i].quantity
        + SumDelivered(db.deliveries,
                       {d \in DOMAIN db.deliveries : db.deliveries[d].inventoryItem = i})

\* C1: after any sequence of record, update and delete requests, each served
\* to its end, every stored item has quantity >= 0.
C1_QuantityNonNegative == \A i \in DOMAIN items : items[i].quantity >= 0

\* an item whose stock was delivered to the last piece
C1_Witness ==
    \E d \in DOMAIN deliveries :
        /\ Found(items, deliveries[d].inventoryItem)
        /\ items[deliveries[d].inventoryItem].quantity = 0

\* C3: every record, update and delete request, accepted or refused, leaves
\* quantity + (sum of quantityDelivered of the item's deliveries) of every
\* item as it was.
C3_LedgerConserved ==
    \A r \in DeliveryRequests : \A i \in DOMAIN items :
        Ledger(Handle(DB, r), i) = Ledger(DB, i)

\* C4: record asked for more than the item holds is refused with the
\* insufficient-stock message carrying the item's name, the quantity on hand
\* and the quantity asked for; nothing is written.
C4_InsufficientStock ==
    \A r \in RecordRequests :
        LET p == parseInt(r.quantityDelivered)
            out == recordHandler(DB, r)
        IN  (Found(items, r.inventoryId) /\ ~p.nan /\ p.n > items[r.inventoryId].quantity)
            => /\ out.flash = Flash("error", "Insufficient stock",
                                    <<ItemName(r.inventoryId),
                                      items[r.inventoryId].quantity, r.quantityDelivered>>)
               /\ parseInt(out.flash.args[3]).n = p.n
               /\ out.items = items
               /\ out.deliveries = deliveries

\* a delivery was recorded and a request now asks for more than is left
C4_Witness ==
    /\ deliveries # <<>>
    /\ \E r \in RecordRequests :
        /\ Found(items, r.inventoryId)
        /\ items[r.inventoryId].quantity >= 1
        /\ parseInt(r.quantityDelivered).n > items[r.inventoryId].quantity
        /\ recordHandler(DB, r).flash.msg = "Insufficient stock"

\* C5: record of q, 1 <= q <= quantity of the existing item, succeeds, stores
\* exactly one new delivery of q for the item, takes exactly q from the item
\* and leaves every other item and delivery as it was.
C5_RecordSucceeds ==
    \A r \in RecordRequests :
        LET p == parseInt(r.quantityDelivered)
            i == r.inventoryId
            out == recordHandler(DB, r)
        IN  (Found(items, i) /\ ~p.nan /\ 1 <= p.n /\ p.n <= items[i].quantity)
            => /\ out.flash.type = "success"
               /\ DOMAIN out.deliveries \ DOMAIN deliveries = {nextId}
               /\ out.deliveries[nextId].inventoryItem = i
               /\ out.deliveries[nextId].quantityDelivered = p.n
               /\ \A d \in DOMAIN deliveries :
                      Found(out.deliveries, d) /\ out.deliveries[d] = deliveries[d]
               /\ DOMAIN out.items = DOMAIN items
               /\ out.items[i] = [items[i] EXCEPT !.quantity = @ - p.n]
               /\ \A j \in DOMAIN items \ {i} : out.items[j] = items[j]

\* a delivery of 2 was recorded beside another delivery
C5_Witness ==
    \E d \in DOMAIN deliveries :
        /\ d = nextId - 1
        /\ d > 1
        /\ Found(deliveries, 1)
        /\ deliveries[d].quantityDelivered = 2
        /\ Found(items, deliveries[d].inventoryItem)
        /\ items[deliveries[d].inventoryItem].quantity = 0

\* C6: every delivery that record stores has quantityDelivered >= 1; a record
\* request for 0 or a negative quantity stores no delivery and changes no
\* item's quantity.
C6_RecordPositive ==
    \A r \in RecordRequests :
        LET p == parseInt(r.quantityDelivered)
            out == recordHandler(DB, r)
        IN  /\ \A d \in DOMAIN out.deliveries \ DOMAIN deliveries :
                   out.deliveries[d].quantityDelivered >= 1
            /\ (~p.nan /\ p.n <= 0)
                   => (out.items = items /\ out.deliveries = deliveries)

\* a request for 0 or less arrives for a stored item, after a delivery
C6_Witness ==
    /\ deliveries # <<>>
    /\ \E r \in RecordRequests :
        /\ Found(items, r.inventoryId)
        /\ parseInt(r.quantityDelivered) = Num(-1)
        /\ recordHandler(DB, r).flash.type = "error"

\* C8: record followed by delete of the delivery it created, the item not
\* touched in between, leaves the item's quantity as before the record and
\* no delivery of the pair.
C8_RoundTrip ==
    (mark # <<>> /\ mark[1].deleted)
        => /\ Found(items, mark[1].item)
           /\ items[mark[1].item].quantity = mark[1].before
           /\ ~Found(deliveries, mark[1].id)

\* a recorded delivery has just been deleted
C8_Witness == mark # <<>> /\ mark[1].deleted /\ mark[1].before >= 1

\* C9: update raising the delivered quantity by diff > 0 succeeds exactly when
\* the referenced item holds quantity >= diff; it then takes exactly diff from
\* the item and the delivery stores the new quantity.
C9_UpdateIncrease ==
    \A r \in UpdateRequests :
        LET p == parseInt(r.quantityDelivered)
            out == updateHandler(DB, r)
        IN  (Found(deliveries, r.id) /\ ~p.nan
                /\ p.n - deliveries[r.id].quantityDelivered > 0)
            => LET diff == p.n - deliveries[r.id].quantityDelivered
                   ref == deliveries[r.id].inventoryItem
               IN  /\ (out.flash.type = "success")
                          <=> (Found(items, ref) /\ items[ref].quantity >= diff)
                   /\ (out.flash.type = "success")
                          => /\ out.items[ref].quantity = items[ref].quantity - diff
                             /\ out.deliveries[r.id].quantityDelivered = p.n

\* a delivery of 1 can be raised to 2 with the last piece on hand
C9_Witness ==
    \E r \in UpdateRequests :
        /\ Found(deliveries, r.id)
        /\ deliveries[r.id].quantityDelivered = 1
        /\ parseInt(r.quantityDelivered) = Num(2)
        /\ Found(items, deliveries[r.id].inventoryItem)
        /\ items[deliveries[r.id].inventoryItem].quantity = 1
        /\ updateHandler(DB, r).items[deliveries[r.id].inventoryItem].quantity = 0

\* C10: update refused for insufficient stock (diff > 0, quantity < diff)
\* writes nothing: the item's quantity and the delivery's customerName,
\* quantityDelivered and notes stay as they were.
C10_UpdateRefused ==
    \A r \in UpdateRequests :
        LET p == parseInt(r.quantityDelivered)
            out == updateHandler(DB, r)
        IN  (/\ Found(deliveries, r.id) /\ ~p.nan
             /\ Found(items, deliveries[r.id].inventoryItem)
             /\ p.n - deliveries[r.id].quantityDelivered > 0
             /\ items[deliveries[r.id].inventoryItem].quantity
                    < p.n - deliveries[r.id].quantityDelivered)
            => /\ out.flash.type = "error"
               /\ out.flash.msg = "Insufficient stock for quantity update"
               /\ out.items = items
               /\ out.deliveries = deliveries

\* a request with other form texts raises a delivery beyond the stock
C10_Witness ==
    \E r \in UpdateRequests :
        /\ Found(deliveries, r.id)
        /\ r.customerName # deliveries[r.id].customerName
        /\ r.notes # deliveries[r.id].notes
        /\ Found(items, deliveries[r.id].inventoryItem)
        /\ items[deliveries[r.id].inventoryItem].quantity >= 1
        /\ parseInt(r.quantityDelivered).n - deliveries[r.id].quantityDelivered
               > items[deliveries[r.id].inventoryItem].quantity
        /\ updateHandler(DB, r).flash.msg = "Insufficient stock for quantity update"

\* C11 as stated: update lowering the delivered quantity (diff < 0) of a
\* delivery whose item exists succeeds for every new quantity and every stock
\* level, adds -diff to the item and stores the new quantity.
C11_DecreaseAlwaysSucceeds ==
    \A r \in UpdateRequests :
        LET p == parseInt(r.quantityDelivered)
            out == updateHandler(DB, r)
        IN  (/\ Found(deliveries, r.id) /\ ~p.nan
             /\ Found(items, deliveries[r.id].inventoryItem)
             /\ p.n < deliveries[r.id].quantityDelivered)
            => LET ref == deliveries[r.id].inventoryItem
                   diff == p.n - deliveries[r.id].quantityDelivered
               IN  /\ out.flash.type = "success"
                   /\ out.items[ref].quantity = items[ref].quantity - diff
                   /\ out.deliveries[r.id].quantityDelivered = p.n

\* C11: update lowering the delivered quantity to a new quantity >= 1
\* (diff < 0) of a delivery whose item exists succeeds for every stock level
\* of the item, 0 included: the item's quantity grows by exactly -diff, the
\* delivery stores the new quantity, and nothing else changes.
C11_DecreaseSucceeds ==
    \A r \in UpdateRequests :
        LET p == parseInt(r.quantityDelivered)
            out == updateHandler(DB, r)
        IN  (/\ Found(deliveries, r.id) /\ ~p.nan /\ p.n >= 1
             /\ Found(items, deliveries[r.id].inventoryItem)
             /\ p.n < deliveries[r.id].quantityDelivered)
            => LET ref == deliveries[r.id].inventoryItem
                   diff == p.n - deliveries[r.id].quantityDelivered
               IN  /\ out.flash.type = "success"
                   /\ out.items[ref].quantity = items[ref].quantity - diff
                   /\ \A i \in DOMAIN items \ {ref} : out.items[i] = items[i]
                   /\ DOMAIN out.items = DOMAIN items
                   /\ out.deliveries[r.id].quantityDelivered = p.n

\* an update lowers a delivery to a quantity >= 1 while its item holds 0
C11_Witness ==
    \E r \in UpdateRequests :
        /\ Found(deliveries, r.id)
        /\ Found(items, deliveries[r.id].inventoryItem)
        /\ items[deliveries[r.id].inventoryItem].quantity = 0
        /\ parseInt(r.quantityDelivered).n >= 1
        /\ parseInt(r.quantityDelivered).n < deliveries[r.id].quantityDelivered
        /\ updateHandler(DB, r).flash.type = "success"

\* C12 as stated: update of a delivery whose item no longer exists is refused
\* for every new quantity, the stored quantity included.
C12_DanglingAlwaysRefused ==
    \A r \in UpdateRequests :
        LET out == updateHandler(DB, r)
        IN  (/\ Found(deliveries, r.id)
             /\ ~Found(items, deliveries[r.id].inventoryItem))
            => /\ out.flash.type = "error"
               /\ out.items = items
               /\ out.deliveries = deliveries

\* C12: update of a delivery whose item no longer exists, asking for a
\* quantity that differs from the stored one (a non-numeric one included), is
\* refused with 'Associated inventory item no longer exists': no item's
\* quantity is adjusted and the delivery's fields are unchanged.
C12_DanglingRefused ==
    \A r \in UpdateRequests :
        LET p == parseInt(r.quantityDelivered)
            out == updateHandler(DB, r)
        IN  (/\ Found(deliveries, r.id)
             /\ ~Found(items, deliveries[r.id].inventoryItem)
             /\ (p.nan \/ p.n # deliveries[r.id].quantityDelivered))
            => /\ out.flash.type = "error"
               /\ out.flash.msg = "Associated inventory item no longer exists"
               /\ out.items = items
               /\ out.deliveries = deliveries

\* the item of a stored delivery was deleted and an update asks for another
\* quantity and other texts
C12_Witness ==
    \E r \in UpdateRequests :
        /\ Found(deliveries, r.id)
        /\ ~Found(items, deliveries[r.id].inventoryItem)
        /\ DOMAIN items # {}
        /\ ~parseInt(r.quantityDelivered).nan
        /\ parseInt(r.quantityDelivered).n # deliveries[r.id].quantityDelivered
        /\ r.customerName # deliveries[r.id].customerName
        /\ updateHandler(DB, r).flash.msg = "Associated inventory item no longer exists"

\* C13: update asking for the stored quantity (diff = 0) changes no item and
\* stores the customer name and the notes of the form.
C13_SameQuantity ==
    \A r \in UpdateRequests :
        LET p == parseInt(r.quantityDelivered)
            out == updateHandler(DB, r)
        IN  (/\ Found(deliveries, r.id) /\ ~p.nan
             /\ p.n = deliveries[r.id].quantityDelivered)
            => /\ out.flash.type = "success"
               /\ out.items = items
               /\ out.deliveries[r.id].customerName = r.customerName
               /\ out.deliveries[r.id].notes = r.notes
               /\ out.deliveries[r.id].quantityDelivered = p.n
               /\ \A d \in DOMAIN deliveries \ {r.id} :
                      out.deliveries[d] = deliveries[d]

\* an update keeps the quantity and brings another name and other notes
C13_Witness ==
    \E r \in UpdateRequests :
        /\ Found(deliveries, r.id)
        /\ parseInt(r.quantityDelivered) = Num(deliveries[r.id].quantityDelivered)
        /\ r.customerName # deliveries[r.id].customerName
        /\ r.notes # deliveries[r.id].notes
        /\ updateHandler(DB, r).deliveries[r.id].notes = r.notes

C15_DeleteDangling ==
    \A r \in DeleteRequests :
        LET out == deleteHandler(DB, r)
        IN  (/\ Found(deliveries, r.id)
             /\ ~Found(items, deliveries[r.id].inventoryItem))
            => /\ out.flash.type = "success"
               /\ out.items = items
               /\ DOMAIN out.deliveries = DOMAIN deliveries \ {r.id}
               /\ \A d \in DOMAIN out.deliveries :
                      out.deliveries[d] = deliveries[d]

\* a stored delivery points at a deleted item while another item is in stock
C15_Witness ==
    \E r \in DeleteRequests :
        /\ Found(deliveries, r.id)
        /\ ~Found(items, deliveries[r.id].inventoryItem)
        /\ \E i \in DOMAIN items : items[i].quantity >= 1
        /\ ~Found(deleteHandler(DB, r).deliveries, r.id)

\* C16: record naming an unknown item, and update and delete naming an
\* unknown delivery, each flash an error and change no item and no delivery.
C16_NotFoundChangesNothing ==
    /\ \A r \in RecordRequests :
           ~Found(items, r.inventoryId)
           => LET out == recordHandler(DB, r)
              IN  /\ out.flash.type = "error"
                  /\ out.flash.msg = "Inventory item not found"
                  /\ out.items = items /\ out.deliveries = deliveries
    /\ \A r \in UpdateRequests \cup DeleteRequests :
           ~Found(deliveries, r.id)
           => LET out == Handle(DB, r)
              IN  /\ out.flash.type = "error"
                  /\ out.flash.msg = "Delivery not found"
                  /\ out.items = items /\ out.deliveries = deliveries

\* an item is gone and a delivery id is unused while items and deliveries
\* are stored
C16_Witness ==
    /\ deliveries # <<>> /\ DOMAIN items # {}
    /\ \E r \in RecordRequests :
           /\ ~Found(items, r.inventoryId)
           /\ recordHandler(DB, r).flash.msg = "Inventory item not found"
    /\ \E r \in UpdateRequests :
           /\ ~Found(deliveries, r.id)
           /\ updateHandler(DB, r).flash.msg = "Delivery not found"

(***************************************************************************)
(* Properties of concurrent requests (SpecConc).                           *)
(***************************************************************************)
\* C2: under every interleaving of concurrent record requests for one item
\* the item's quantity never becomes negative.
C2_NoOverdraw == \A i \in ItemIds : Found(items, i) => items[i].quantity >= 0

\* C7: no execution of record ends with the delivery stored and the
\* referenced item's quantity not decremented for it.
C7_StoredImpliesDecremented ==
    \A p \in Procs : (pc[p] = "done" /\ loc[p].id # 0) => loc[p].matched

\* C24: deleting an item removes that item alone: every delivery stored
\* before is stored after with the same fields, the deliveries of the item
\* now naming an id that is not stored, and every other item is unchanged.
C24_DeleteItemNoCascade ==
    \A r \in DeleteItemRequests :
        LET out == deleteItemHandler(DB, r)
        IN  /\ out.deliveries = deliveries
            /\ ~Found(out.items, r.id)
            /\ DOMAIN out.items = DOMAIN items \ {r.id}
            /\ \A i \in DOMAIN out.items : out.items[i] = items[i]
            /\ \A d \in DOMAIN deliveries :
                   deliveries[d].inventoryItem = r.id
                   => ~Found(out.items, out.deliveries[d].inventoryItem)

\* an item with a delivery is stored next to another item
C24_Witness ==
    \E r \in DeleteItemRequests :
        /\ Found(items, r.id)
        /\ DOMAIN items # {r.id}
        /\ \E d \in DOMAIN deliveries : deliveries[d].inventoryItem = r.id
        /\ ~Found(deleteItemHandler(DB, r).items, r.id)

\* C29: an update that ends in an error, the rejected save after the stock
\* adjustment included, leaves every item and every delivery as before.
C29_UpdateAllOrNothing ==
    \A r \in UpdateRequests :
        LET out == updateHandler(DB, r)
        IN  out.flash.type = "error"
            => out.items = items /\ out.deliveries = deliveries

(***************************************************************************)
(* Properties of delivery requests and catalog operations (SpecStock).     *)
(***************************************************************************)
\* C23: every stored item has quantity >= 0 in every reachable state, after
\* edit and update-stock with any submitted quantity included.
C23_QuantityNeverNegative ==
    \A i \in ItemIds : i \in DOMAIN items => ~(items[i].quantity < 0)

(***************************************************************************)
(* Properties of add requests served one at a time (SpecAdd).              *)
(***************************************************************************)
\* C20: after any sequence of add requests served one after another, each
\* (itemName, category, size, color) has at most one item, and the item's
\* quantity is the sum of the positive quantities the requests passed for
\* it, a size named several times in one request included.
C20_QuantityIsSumPassed ==
    \A sku \in Skus :
        /\ Cardinality(WithSku(items, sku)) <= 1
        /\ \A i \in WithSku(items, sku) : items[i].quantity = passed[sku]

\* C21: an add request whose quantities are all 0, missing, non-numeric or
\* negative skips every pair: the catalog is unchanged and nothing is counted
\* as created or updated.
C21_NonPositiveSkipped ==
    \A r \in AddRequests, st \in ServedStreams :
        (\A i \in 1..Len(sizeArray(r)) : QtyAt(r, i).nan \/ QtyAt(r, i).n <= 0)
        => LET out == addHandler(DB, r, [i \in 1..MaxSizes |-> st])
           IN  /\ out.items = items
               /\ out.flash = Flash("success", AddMessage(0, 0), <<r.itemName>>)

\* C22: an add request naming one size with a quantity > 0, for which an
\* item with the same itemName, category, size and color is stored, adds the
\* quantity to that item and leaves its barcode, price and description as
\* they are, whatever price and description the form carries; no item is
\* created and no other item changes.
C22_IncrementKeepsFields ==
    \A r \in PricedAddRequests, st \in ServedStreams :
        LET qty == QtyAt(r, 1)
            existing == WithSku(items, Sku(r, sizeArray(r)[1]))
            out == addHandler(DB, r, [i \in 1..MaxSizes |-> st])
        IN  (~r.sizes.isArray /\ existing # {} /\ ~qty.nan /\ qty.n > 0)
            => LET id == FirstOf(existing)
               IN  /\ out.flash.type = "success"
                   /\ DOMAIN out.items = DOMAIN items
                   /\ out.items[id].quantity = items[id].quantity + qty.n
                   /\ out.items[id].barcode = items[id].barcode
                   /\ out.items[id].price = items[id].price
                   /\ out.items[id].description = items[id].description
                   /\ \A i \in DOMAIN items \ {id} : out.items[i] = items[i]

\* a form with another price and description adds to a stored item while
\* a second item is stored
C22_Witness ==
    \E r \in PricedAddRequests, st \in ServedStreams :
        LET existing == WithSku(items, Sku(r, sizeArray(r)[1]))
        IN  /\ ~r.sizes.isArray /\ existing # {}
            /\ QtyAt(r, 1) = Num(1)
            /\ Cardinality(DOMAIN items) >= 2
            /\ r.price # items[FirstOf(existing)].price
            /\ r.description # items[FirstOf(existing)].description
            /\ addHandler(DB, r, [i \in 1..MaxSizes |-> st]).items[FirstOf(existing)].quantity
                   = items[FirstOf(existing)].quantity + 1

(***************************************************************************)
(* Properties of concurrent add requests (SpecAddConc).                    *)
(***************************************************************************)
\* C17: in every reachable state no two items carry the same barcode, the
\* states reached by two concurrent add requests whose allocations draw the
\* same candidate before either item is saved included.
C17_BarcodeUnique ==
    \A i, j \in DOMAIN items : i # j => items[i].barcode # items[j].barcode

\* C25: two add requests for the same tuple, not stored when they start,
\* both with a quantity > 0 and both ending in success, leave one item for
\* the tuple, holding the sum of the two quantities.
C25_ConcurrentAddsMerge ==
    (/\ \A p \in Procs : pc[p] = "done" /\ loc[p].flash.type = "success"
                          /\ ~QtyAt(loc[p].r, 1).nan /\ QtyAt(loc[p].r, 1).n > 0
     /\ \A p, q \in Procs : sizeArray(loc[p].r) = sizeArray(loc[q].r))
    => \A p \in Procs :
           LET sku == Sku(loc[p].r, sizeArray(loc[p].r)[1])
           IN  /\ Cardinality(WithSku(items, sku)) = 1
               /\ \A i \in WithSku(items, sku) :
                      items[i].quantity = passed[sku]

\* generateBarcode of request p ended with the error thrown after the loop
Exhausted(p) ==
    /\ pc[p] = "done"
    /\ loc[p].flash.args = <<"Could not generate a unique barcode after 100 attempts.">>

\* a text of BarcodeLength characters, each a digit
IsBarcode(t) == Len(t) = BarcodeLength /\ \A k \in 1..Len(t) : IsDigit(t[k])

\* C18: whenever generateBarcode returns, the value is a text of 12 digits
\* that no stored item carried at the lookup that let it pass, and no step
\* of generateBarcode changes the Inventory collection.
C18_AllocatedFree ==
    [][\A p \in Procs :
         /\ (pc[p] = "lookup" /\ pc'[p] = "create")
                => /\ IsBarcode(loc'[p].barcode)
                   /\ \A i \in DOMAIN items : items[i].barcode # loc'[p].barcode
         /\ (pc[p] = "lookup" /\ (pc'[p] # pc[p] \/ loc'[p] # loc[p]))
                => items' = items]_vars

\* generateBarcode has returned a barcode after at least one collision,
\* with items stored
C18_Witness ==
    \E p \in Procs :
        /\ pc[p] = "create"
        /\ loc[p].attempts >= 1
        /\ DOMAIN items # {}
        /\ ~BarcodeExists(items, loc[p].barcode)

\* C19: generateBarcode ends after at most 100 lookups: a lookup that finds
\* the candidate free returns it at once, the error is thrown exactly when
\* 100 lookups in a row found their candidate stored (never after fewer,
\* and there is no 101st lookup), and a call in its loop always leaves it.
C19_AllocationBounded ==
    /\ [](\A p \in Procs :
            /\ loc[p].attempts <= maxAttempts
            /\ pc[p] \in {"lookup", "create"} => loc[p].attempts < maxAttempts
            /\ Exhausted(p) <=> loc[p].attempts = maxAttempts)
    /\ [][\A p \in Procs :
            (/\ pc[p] = "lookup" /\ (pc'[p] # pc[p] \/ loc'[p] # loc[p])
             /\ ~BarcodeExists(items, loc[p].barcode))
                => pc'[p] = "create" /\ loc'[p] = loc[p]]_vars
    /\ \A p \in Procs : (pc[p] = "lookup") ~> (pc[p] # "lookup")

\* a call threw after maxAttempts collisions
C19_Witness == \E p \in Procs : Exhausted(p) /\ loc[p].attempts = maxAttempts

(***************************************************************************)
(* Properties of the reports (SpecStatus).                                 *)
(***************************************************************************)
\* C30: the Excel report and the export-all sheet give every item the same
\* status: 'Out of Stock' for quantity 0, 'Low Stock' for 1..10, 'In Stock'
\* above 10; the dashboard counts the items of the first two classes.
C30_StatusConsistent ==
    \A p \in Procs :
        /\ loc[p].r.op \in {"excel", "export"}
               => \A i \in DOMAIN items :
                      loc[p].rows[i] =
                          IF items[i].quantity = 0 THEN "Out of Stock"
                          ELSE IF items[i].quantity \in 1..10 THEN "Low Stock"
                          ELSE "In Stock"
        /\ loc[p].r.op = "dashboard"
               => /\ loc[p].rows.outOfStockItems
                         = Cardinality({ i \in DOMAIN items : items[i].quantity = 0 })
                  /\ loc[p].rows.lowStockItems
                         = Cardinality({ i \in DOMAIN items : items[i].quantity \in 1..10 })

(***************************************************************************)
(* Properties of concurrent requests on one delivery and one item          *)
(* (SpecMix).                                                              *)
(***************************************************************************)
\* the request of p has ended and was operation op
Ended(p, op) == pc[p] = "done" /\ loc[p].r.op = op

\* the request of p was an update or a delete of the delivery stored at the
\* start, an update asking for a quantity that save() accepts
OnStoredDelivery(p) ==
    \/ Ended(p, "delete") /\ loc[p].r.id = mark[1].id
    \/ /\ Ended(p, "update") /\ loc[p].r.id = mark[1].id
       /\ DeliveryValid(parseInt(loc[p].r.quantityDelivered))

\* what the ended request of p has added to the quantity of item i
Adjustment(p, i) ==
    LET r == loc[p].r
    IN  CASE r.op = "add" ->
                 IF loc[p].updated > 0 /\ loc[p].id = i THEN QtyAt(r, 1).n ELSE 0
          [] r.op = "record" ->
                 IF loc[p].matched /\ r.inventoryId = i
                 THEN -parseInt(r.quantityDelivered).n ELSE 0
          [] r.op = "update" ->
                 IF loc[p].matched /\ loc[p].delivery.inventoryItem = i
                 THEN -Diff(parseInt(r.quantityDelivered),
                            loc[p].delivery.quantityDelivered).n
                 ELSE 0
          [] r.op = "delete" ->
                 IF loc[p].matched /\ loc[p].delivery.inventoryItem = i
                 THEN loc[p].delivery.quantityDelivered ELSE 0
          [] OTHER -> 0

\* C26: when two deletes of the same delivery both read it before either
\* removes it, and both have ended, the referenced item's quantity is what
\* it was before plus quantityDelivered once.
C26_DeleteRestoresOnce ==
    (\A p \in Procs : /\ Ended(p, "delete") /\ loc[p].r.id = mark[1].id
                      /\ loc[p].flash.type = "success")
    => items[mark[1].item].quantity = mark[1].before + mark[1].delivered

\* C27: when two updates of the stored delivery, or an update and a delete
\* of it, have both ended, the item's quantity plus the quantities of the
\* stored deliveries that reference the item is what it was at the start.
C27_LedgerKeptByPair ==
    (/\ \A p \in Procs : OnStoredDelivery(p)
     /\ \E p \in Procs : Ended(p, "update"))
    => Ledger(DB, mark[1].item) = mark[1].before + mark[1].delivered

\* C28: when an ingest that incremented a stored item and another ingest, or
\* a record, update or delete that adjusted the same item, have both ended,
\* the item's quantity is its quantity at the start plus the two adjustments.
C28_NoAdjustmentLost ==
    \A p, q \in Procs :
        (/\ p # q
         /\ Ended(p, "add") /\ loc[p].flash.type = "success"
         /\ loc[p].updated > 0 /\ loc[p].id = mark[1].item
         /\ pc[q] = "done"
         /\ Adjustment(q, mark[1].item) # 0)
        => items[mark[1].item].quantity
               = mark[1].before + Adjustment(p, mark[1].item)
                                + Adjustment(q, mark[1].item)

====
